---- MODULE Spec2Model ----
(***************************************************************************)
(* A model of SdkgenHttpServer (src/src/http-server.ts): the header map,   *)
(* the auxiliary handler registry, and the per-request pipeline            *)
(* handleRequest -> handleRequestWithBody -> parseRequest -> hooks and     *)
(* function -> writeReply.                                                 *)
(*                                                                         *)
(* JavaScript strings are TLA+ strings (Len, \o, SubSeq, Head and Tail act *)
(* on them), the empty string being the falsy one.  JSON values are        *)
(* records of one shape, so that any two of them can be compared.          *)
(***************************************************************************)
EXTENDS Integers, Sequences, FiniteSets, TLC

VARIABLES
    headers,            \* this.headers: Map<string, string>
    handlers,           \* this.handlers: the auxiliary route entries, in registration order
    dynamicCorsOrigin,  \* this.dynamicCorsOrigin
    ignoredUrlPrefix,   \* this.ignoredUrlPrefix
    tasks,              \* one record per inbound request (req, res, position, ctx, reply, calls)
    addHeaderCalls,     \* history: the addHeader calls made so far, in call order
    found               \* history: the last findBestHandler call and what it returned

vars == <<headers, handlers, dynamicCorsOrigin, ignoredUrlPrefix, tasks, addHeaderCalls, found>>

----------------------------------------------------------------------------
(* Bounds of the model *)

\* addHeader calls made after construction
MaxAddHeader == 3
\* addHttpHandler calls made after construction
MaxAddHandler == 3
\* "data" events of one request
MaxChunks == 2

----------------------------------------------------------------------------
(* Strings *)

UpperChars == "ABCDEFGHIJKLMNOPQRSTUVWXYZ"
LowerChars == "abcdefghijklmnopqrstuvwxyz"

CharAt(s, i) == SubSeq(s, i, i)

LowerChar(c) ==
    IF \E i \in 1..Len(UpperChars) : CharAt(UpperChars, i) = c
    THEN CharAt(LowerChars, CHOOSE i \in 1..Len(UpperChars) : CharAt(UpperChars, i) = c)
    ELSE c

RECURSIVE ToLowerCase(_)
ToLowerCase(s) == IF s = "" THEN "" ELSE LowerChar(Head(s)) \o ToLowerCase(Tail(s))

RECURSIVE TrimStart(_)
TrimStart(s) == IF s # "" /\ Head(s) = " " THEN TrimStart(Tail(s)) ELSE s

RECURSIVE TrimEnd(_)
TrimEnd(s) ==
    IF s # "" /\ CharAt(s, Len(s)) = " " THEN TrimEnd(SubSeq(s, 1, Len(s) - 1)) ELSE s

Trim(s) == TrimEnd(TrimStart(s))

StartsWith(s, prefix) == Len(prefix) <= Len(s) /\ SubSeq(s, 1, Len(prefix)) = prefix

\* s.slice(n)
Slice(s, n) == SubSeq(s, n + 1, Len(s))

\* s.indexOf(sub): the 0-based position of the leftmost occurrence, -1 if none
IndexOf(s, sub) ==
    LET hits == {i \in 0..(Len(s) - Len(sub)) : SubSeq(s, i + 1, i + Len(sub)) = sub}
    IN  IF hits = {} THEN -1 ELSE CHOOSE i \in hits : \A j \in hits : i <= j

Includes(s, sub) == IndexOf(s, sub) >= 0

----------------------------------------------------------------------------
(* The header map: addHeader, enableCors *)

MapGet(m, k) == IF k \in DOMAIN m THEN m[k] ELSE ""

MapSet(m, k, v) == [x \in DOMAIN m \cup {k} |-> IF x = k THEN v ELSE m[x]]

EmptyMap == [x \in {} |-> ""]

\* addHeader(header, value) applied to the map hs; `if (existing)` is false
\* for an absent name and for a stored empty string alike.
addHeader(hs, header, value) ==
    LET h == Trim(ToLowerCase(header))
        existing == MapGet(hs, h)
    IN  IF existing # ""
        THEN MapSet(hs, h, existing \o ", " \o value)
        ELSE MapSet(hs, h, value)

\* The three addHeader calls of enableCors, in order.
enableCorsCalls ==
    << [header |-> "Access-Control-Allow-Methods",
        value |-> "DELETE, HEAD, PUT, POST, PATCH, GET, OPTIONS"],
       [header |-> "Access-Control-Allow-Headers", value |-> "Content-Type"],
       [header |-> "Access-Control-Max-Age", value |-> "86400"] >>

RECURSIVE ApplyAddHeader(_, _)
ApplyAddHeader(hs, calls) ==
    IF calls = <<>> THEN hs
    ELSE ApplyAddHeader(addHeader(hs, Head(calls).header, Head(calls).value), Tail(calls))

enableCors == ApplyAddHeader(EmptyMap, enableCorsCalls)

\* The names and values addHeader is called with after construction.
HeaderNames == {"X-A", " x-a ", "Access-Control-Max-Age"}
HeaderValues == {"", "a"}

AddHeader(header, value) ==
    /\ Len(addHeaderCalls) < Len(enableCorsCalls) + MaxAddHeader
    /\ headers' = addHeader(headers, header, value)
    /\ addHeaderCalls' = Append(addHeaderCalls, [header |-> header, value |-> value])
    /\ UNCHANGED <<handlers, dynamicCorsOrigin, ignoredUrlPrefix, tasks, found>>

----------------------------------------------------------------------------
(* The handler registry: addHttpHandler, findBestHandler *)

\* A matcher is a literal path or a RegExp.  The patterns modelled are a
\* literal text, optionally followed by `.*`, searched for anywhere in the
\* path (no ^ anchor): /text/ and /text.*/.
Literal(p) == [regexp |-> FALSE, source |-> p, rest |-> FALSE]
Pattern(text, rest) == [regexp |-> TRUE, source |-> text, rest |-> rest]

\* path.search(matcher): the position of the leftmost match, -1 if none
Search(path, matcher) == IndexOf(path, matcher.source)

\* path.match(matcher)[0]: the text of the leftmost match
Match0(path, matcher) ==
    LET i == Search(path, matcher)
    IN  IF matcher.rest THEN Slice(path, i) ELSE matcher.source

Matches(path, matcher) ==
    IF ~matcher.regexp THEN matcher.source = path ELSE Search(path, matcher) = 0

\* A mutant of the comparator: the shorter match first.
CompareShortestFirst(path, first, second) ==
    IF ~first.regexp /\ ~second.regexp THEN 0
    ELSE IF ~first.regexp THEN -1
    ELSE IF ~second.regexp THEN 1
    ELSE Len(Match0(path, first)) - Len(Match0(path, second))

\* The comparator handed to sort, on the matchers of two entries.
Compare(path, first, second) ==
    IF ~first.regexp /\ ~second.regexp THEN 0
    ELSE IF ~first.regexp THEN -1
    ELSE IF ~second.regexp THEN 1
    ELSE Len(Match0(path, second)) - Len(Match0(path, first))

\* Array.prototype.filter
RECURSIVE Filter(_, _, _)
Filter(list, method, path) ==
    IF list = <<>> THEN <<>>
    ELSE LET e == Head(list)
             keep == e.method = method /\ Matches(path, e.matcher)
         IN  (IF keep THEN <<e>> ELSE <<>>) \o Filter(Tail(list), method, path)

\* Array.prototype.sort is stable: an element goes behind every element that
\* does not compare greater than it.
RECURSIVE Insert(_, _, _)
Insert(sorted, e, path) ==
    IF sorted = <<>> THEN <<e>>
    ELSE IF Compare(path, Head(sorted).matcher, e.matcher) <= 0
         THEN <<Head(sorted)>> \o Insert(Tail(sorted), e, path)
         ELSE <<e>> \o sorted

RECURSIVE Sort(_, _)
Sort(list, path) ==
    IF list = <<>> THEN <<>>
    ELSE Insert(Sort(SubSeq(list, 1, Len(list) - 1), path), list[Len(list)], path)

NoHandler == [method |-> "", matcher |-> Literal(""), handler |-> 0]

\* findBestHandler(path, req) on the entries hs; NoHandler stands for null.
findBestHandler(hs, path, method) ==
    LET sorted == Sort(Filter(hs, method, path), path)
    IN  IF sorted = <<>> THEN NoHandler ELSE sorted[1]

\* The four download routes the constructor registers.
ConstructorHandlers ==
    << [method |-> "GET", matcher |-> Literal("/targets/node/api.ts"), handler |-> 1],
       [method |-> "GET", matcher |-> Literal("/targets/node/client.ts"), handler |-> 2],
       [method |-> "GET", matcher |-> Literal("/targets/web/client.ts"), handler |-> 3],
       [method |-> "GET", matcher |-> Literal("/targets/flutter/client.dart"), handler |-> 4] >>

\* The methods, matchers and paths the registry is exercised with.
RouteMethods == {"GET", "POST"}
RouteMatchers ==
    {Literal("/ab"), Pattern("/a", FALSE), Pattern("/ab", FALSE),
     Pattern("/a", TRUE), Pattern("b", FALSE)}
RouteEntries ==
    {[method |-> "GET", matcher |-> x] : x \in RouteMatchers}
    \cup {[method |-> "POST", matcher |-> Pattern("/a", TRUE)]}
RoutePaths == {"/ab", "/a", "/targets/node/api.ts"}

AddHttpHandler(method, matcher) ==
    /\ Len(handlers) < Len(ConstructorHandlers) + MaxAddHandler
    /\ handlers' = Append(handlers,
                          [method |-> method, matcher |-> matcher, handler |-> Len(handlers) + 1])
    /\ UNCHANGED <<headers, dynamicCorsOrigin, ignoredUrlPrefix, tasks, addHeaderCalls, found>>

NotCalled == [called |-> FALSE, method |-> "", path |-> "", entries |-> 0, result |-> NoHandler]

\* One call of findBestHandler, its arguments and result recorded.
FindBestHandler(method, path) ==
    /\ found' = [called |-> TRUE, method |-> method, path |-> path,
                 entries |-> Len(handlers),
                 result |-> findBestHandler(handlers, path, method)]
    /\ UNCHANGED <<headers, handlers, dynamicCorsOrigin, ignoredUrlPrefix, tasks, addHeaderCalls>>

----------------------------------------------------------------------------
(* JSON values *)

Undefined == [type |-> "undefined", str |-> "", num |-> 0]
Null == [type |-> "null", str |-> "", num |-> 0]
JString(s) == [type |-> "string", str |-> s, num |-> 0]
JNumber(n) == [type |-> "number", str |-> "", num |-> n]
JBool(b) == [type |-> "boolean", str |-> "", num |-> IF b THEN 1 ELSE 0]
\* an object or array; `tag` tells one from another
JObject(tag) == [type |-> "object", str |-> tag, num |-> 0]

\* JavaScript's ToBoolean
Truthy(v) ==
    CASE v.type = "string" -> v.str # ""
      [] v.type = "number" -> v.num # 0
      [] v.type = "boolean" -> v.num = 1
      [] v.type = "object" -> TRUE
      [] OTHER -> FALSE

\* a || b
Or(a, b) == IF Truthy(a) THEN a ELSE b

----------------------------------------------------------------------------
(* Request bodies *)

\* The keys of the three request shapes; a nested key is written with a dot.
Keys ==
    {"version", "requestId", "id", "name", "args", "deviceId", "sessionId", "partnerId",
     "extra", "info", "info.type", "info.language", "info.browserUserAgent",
     "device", "device.id", "device.type", "device.platform", "device.version",
     "device.language", "device.timezone",
     "deviceInfo", "deviceInfo.id", "deviceInfo.type", "deviceInfo.browserUserAgent",
     "deviceInfo.timezone", "deviceInfo.version", "deviceInfo.language"}

\* What JSON.parse(body) yields: a SyntaxError ("invalid"), a value that is no
\* object ("primitive": a number, a string, null), or an object, given by the
\* value of every key (Undefined for a key the object does not have).
Object(f) ==
    [json |-> "object", fields |-> [k \in Keys |-> IF k \in DOMAIN f THEN f[k] ELSE Undefined]]
InvalidJson == [json |-> "invalid", fields |-> [k \in Keys |-> Undefined]]
PrimitiveJson == [json |-> "primitive", fields |-> [k \in Keys |-> Undefined]]

\* key in parsed
In(k, parsed) == parsed.fields[k] # Undefined

With(body, k, v) == [body EXCEPT !.fields[k] = v]

\* The function names requests ask for.
RequestNames == {"ping", "calc", "nope"}

V1Devices ==
    { [x \in {} |-> Undefined],
      "device" :> JObject("device"),
      "device" :> JObject("device") @@ "device.id" :> JString("d1") @@ "device.type" :> JString("ios"),
      "device" :> JObject("device") @@ "device.platform" :> JString("android"),
      "device" :> JObject("device") @@ "device.id" :> JString("") @@ "device.type" :> JString("")
        @@ "device.platform" :> JString("android") }

V1Body(n, d) ==
    Object("id" :> JString("r1") @@ "name" :> JString(n) @@ "args" :> JObject("args") @@ d)

V1Bodies ==
    {V1Body("ping", d) : d \in V1Devices}
    \cup {V1Body(n, "device" :> JObject("device")) : n \in RequestNames}

V2Valid(n) ==
    Object("requestId" :> JString("abc") @@ "deviceId" :> JString("d2")
           @@ "name" :> JString(n) @@ "args" :> JObject("args")
           @@ "info" :> JObject("info") @@ "info.type" :> JString("web")
           @@ "info.language" :> JString("en"))

V2Bodies == {V2Valid(n) : n \in RequestNames \cup {"ghost", "orphan"}}

V3DeviceInfos ==
    { [x \in {} |-> Undefined],
      "deviceInfo" :> JObject("deviceInfo") @@ "deviceInfo.id" :> JString("d1") }

\* A deviceInfo with every field, and one whose id and type are empty.
V3FullDeviceInfo ==
    "deviceInfo" :> JObject("deviceInfo") @@ "deviceInfo.id" :> JString("d1")
    @@ "deviceInfo.type" :> JString("ios") @@ "deviceInfo.browserUserAgent" :> JString("ua")
    @@ "deviceInfo.timezone" :> JString("utc") @@ "deviceInfo.version" :> JString("1.0")
    @@ "deviceInfo.language" :> JString("en")
V3EmptyDeviceInfo ==
    "deviceInfo" :> JObject("deviceInfo") @@ "deviceInfo.id" :> JString("")
    @@ "deviceInfo.type" :> JString("")

V3Body(n, r, d) ==
    Object("version" :> JNumber(3) @@ "name" :> JString(n) @@ "args" :> JObject("args")
           @@ "requestId" :> r @@ d)

V3Bodies ==
    {V3Body("ping", r, d) : r \in {Undefined, JString("abc")}, d \in V3DeviceInfos}
    \cup {V3Body(n, Undefined, [x \in {} |-> Undefined]) : n \in RequestNames}
    \cup {With(V3Body("ping", JString("abc"), V3FullDeviceInfo), "extra", JObject("extra")),
          V3Body("ping", JString(""), V3EmptyDeviceInfo)}

\* A valid V2 body that also carries a version field.
VersionedBodies ==
    { With(V2Valid("ping"), "version", v) :
        v \in {JNumber(1), JNumber(2), JNumber(3), JNumber(4), JString("3"), Null} }

\* The body of the scenario: requestId, name, args and deviceInfo.id, no version.
ScenarioBody ==
    Object("requestId" :> JString("abc") @@ "name" :> JString("ping")
           @@ "args" :> JObject("args")
           @@ "deviceInfo" :> JObject("deviceInfo") @@ "deviceInfo.id" :> JString("d1"))

Bodies ==
    V1Bodies \cup V2Bodies \cup V3Bodies \cup VersionedBodies
    \cup {ScenarioBody, InvalidJson, PrimitiveJson}

\* The bodies a request of another method than POST is sent with.
OtherBodies == {ScenarioBody, InvalidJson}

\* The body buffered so far: empty (no "data" event yet), or the document
\* being received and the number of its chunks still to come.
EmptyBody == [empty |-> TRUE, doc |-> InvalidJson, missing |-> 0]
Buffered(doc, missing) == [empty |-> FALSE, doc |-> doc, missing |-> missing]

\* JSON.parse of the fully buffered body; the empty string is no JSON.
JsonParse(body) == IF body.empty THEN InvalidJson ELSE body.doc

----------------------------------------------------------------------------
(* parseRequest *)

\* decode(schema, "root", "Request", value) of ./encode-decode: whether the
\* object conforms to the schema, a map from keys to "string", "string?",
\* "any", "any?", "object" and "object?".  A key of an absent optional object
\* is not looked at.
Conforms(type, v) ==
    CASE type = "string" -> v.type = "string"
      [] type = "string?" -> v.type \in {"string", "null", "undefined"}
      [] type = "any" -> v # Undefined
      [] type = "any?" -> TRUE
      [] type = "object" -> v.type = "object"
      [] type = "object?" -> v.type \in {"object", "null", "undefined"}

Parent(k) == IF IndexOf(k, ".") < 0 THEN "" ELSE SubSeq(k, 1, IndexOf(k, "."))

decodeOk(schema, parsed) ==
    /\ parsed.json = "object"
    /\ \A k \in DOMAIN schema :
        \/ Parent(k) # "" /\ ~Truthy(parsed.fields[Parent(k)]) /\ Parent(k) \in DOMAIN schema
              /\ schema[Parent(k)] = "object?"
        \/ Conforms(schema[k], parsed.fields[k])

\* The decoded object: an absent optional value is null.
decoded(schema, parsed) ==
    [k \in Keys |->
        IF k \in DOMAIN schema /\ parsed.fields[k] # Undefined THEN parsed.fields[k] ELSE Null]

SchemaV1 ==
    "id" :> "string" @@ "args" :> "any" @@ "name" :> "string" @@ "device" :> "object"
    @@ "device.id" :> "string?" @@ "device.type" :> "string?" @@ "device.platform" :> "any?"
    @@ "device.version" :> "string?" @@ "device.language" :> "string?"
    @@ "device.timezone" :> "string?"

\* The source does not show what decode does with an absent object that the
\* schema writes without a question mark: it throws, or it lets the value
\* through.  DecoderModes are the two decoders; the lenient one reads
\* SchemaV1 as this schema.
DecoderModes == {"strict", "lenient"}
SchemaV1Lenient == [SchemaV1 EXCEPT !["device"] = "object?"]

SchemaV2 ==
    "requestId" :> "string" @@ "deviceId" :> "string" @@ "sessionId" :> "string?"
    @@ "partnerId" :> "string?" @@ "args" :> "any" @@ "name" :> "string"
    @@ "info" :> "object" @@ "info.type" :> "string"
    @@ "info.browserUserAgent" :> "string?" @@ "info.language" :> "string"

SchemaV3 ==
    "requestId" :> "string?" @@ "name" :> "string" @@ "args" :> "any" @@ "extra" :> "any?"
    @@ "deviceInfo" :> "object?" @@ "deviceInfo.id" :> "string?"
    @@ "deviceInfo.type" :> "string?" @@ "deviceInfo.browserUserAgent" :> "string?"
    @@ "deviceInfo.timezone" :> "string?" @@ "deviceInfo.version" :> "string?"
    @@ "deviceInfo.language" :> "string?"

\* The value randomBytes(16).toString("hex") yields; which call made it is told by `tag`.
RandomHex(tag) == JString("random-" \o tag)

NoExtra == [kind |-> "empty", sessionId |-> Undefined, partnerId |-> Undefined, of |-> Undefined]

NoRequest ==
    [version |-> 0, id |-> Undefined, args |-> Undefined, name |-> "", extra |-> NoExtra,
     deviceInfo |-> [id |-> Undefined, language |-> Undefined, platform |-> Undefined,
                     timezone |-> Undefined, type |-> Undefined, version |-> Undefined]]

\* The object { browserUserAgent: ua }.
PlatformObject(ua) ==
    JObject("{browserUserAgent:" \o (IF ua = Null THEN "null" ELSE ua.str) \o "}")

\* The toString() of the TypeError of reading a property of undefined or null.
TypeErrorText == "TypeError: Cannot read property of undefined"

\* A parser's outcome: the ContextRequest, or the exception thrown.
Parsed(request) == [ok |-> TRUE, request |-> request, error |-> ""]
ParseThrows(text) == [ok |-> FALSE, request |-> NoRequest, error |-> text]

\* A mutant of identifyRequestVersion: requestId is looked for first.
identifyRequestVersionRequestIdFirst(parsed) ==
    IF In("requestId", parsed) THEN JNumber(2)
    ELSE IF In("version", parsed) THEN parsed.fields["version"]
    ELSE JNumber(1)

\* A mutant of identifyRequestVersion: requestId is not looked for.
identifyRequestVersionNoRequestId(parsed) ==
    IF In("version", parsed) THEN parsed.fields["version"] ELSE JNumber(1)

\* identifyRequestVersion, on the parsed body of an object.
identifyRequestVersion(parsed) ==
    IF In("version", parsed) THEN parsed.fields["version"]
    ELSE IF In("requestId", parsed) THEN JNumber(2)
    ELSE JNumber(1)

\* A mutant of parseRequestV1: the device id and type are taken as they are.
parseRequestV1NoDefaults(parsed, mode) ==
    LET schema == IF mode = "lenient" THEN SchemaV1Lenient ELSE SchemaV1
        p == decoded(schema, parsed)
    IN  IF ~decodeOk(schema, parsed) THEN ParseThrows("Error: Invalid Type")
        ELSE IF ~Truthy(p["device"]) THEN ParseThrows(TypeErrorText)
        ELSE Parsed([version |-> 1, id |-> p["id"], args |-> p["args"], name |-> p["name"].str,
                     extra |-> NoExtra,
                     deviceInfo |->
                        [id |-> p["device.id"],
                         language |-> p["device.language"],
                         platform |-> p["device.platform"],
                         timezone |-> p["device.timezone"],
                         type |-> p["device.type"],
                         version |-> p["device.version"]]])

\* parseRequestV1.  parsed.device.id of line 321 throws a TypeError when the
\* decoder let an absent device through.
parseRequestV1(parsed, mode) ==
    LET schema == IF mode = "lenient" THEN SchemaV1Lenient ELSE SchemaV1
        p == decoded(schema, parsed)
    IN  IF ~decodeOk(schema, parsed) THEN ParseThrows("Error: Invalid Type")
        ELSE IF ~Truthy(p["device"]) THEN ParseThrows(TypeErrorText)
        ELSE Parsed([version |-> 1, id |-> p["id"], args |-> p["args"], name |-> p["name"].str,
                     extra |-> NoExtra,
                     deviceInfo |->
                        [id |-> Or(p["device.id"], p["id"]),
                         language |-> p["device.language"],
                         platform |-> p["device.platform"],
                         timezone |-> p["device.timezone"],
                         type |-> Or(Or(p["device.type"], p["device.platform"]), JString("")),
                         version |-> p["device.version"]]])

parseRequestV2(parsed) ==
    IF ~decodeOk(SchemaV2, parsed) THEN ParseThrows("Error: Invalid Type")
    ELSE LET p == decoded(SchemaV2, parsed)
         IN  Parsed([version |-> 2, id |-> p["requestId"], args |-> p["args"],
                     name |-> p["name"].str,
                     extra |-> [kind |-> "v2", sessionId |-> p["sessionId"],
                                partnerId |-> p["partnerId"], of |-> Undefined],
                     deviceInfo |->
                        [id |-> p["deviceId"],
                         language |-> p["info.language"],
                         platform |-> PlatformObject(Or(p["info.browserUserAgent"], Null)),
                         timezone |-> Null,
                         type |-> p["info.type"],
                         version |-> JString("")]])

\* A mutant of parseRequestV3: the defaults of parseRequestV1.
parseRequestV3DefaultsOfV1(parsed) ==
    IF ~decodeOk(SchemaV3, parsed) THEN ParseThrows("Error: Invalid Type")
    ELSE LET p == decoded(SchemaV3, parsed)
         IN  Parsed([version |-> 3, id |-> Or(p["requestId"], RandomHex("id")),
                     args |-> p["args"], name |-> p["name"].str,
                     extra |-> NoExtra,
                     deviceInfo |->
                        [id |-> Or(p["deviceInfo.id"], Or(p["requestId"], RandomHex("id"))),
                         language |-> Or(p["deviceInfo.language"], Null),
                         platform |-> PlatformObject(Or(p["deviceInfo.browserUserAgent"], Null)),
                         timezone |-> Or(p["deviceInfo.timezone"], Null),
                         type |-> Or(p["deviceInfo.type"], JString("")),
                         version |-> Or(p["deviceInfo.version"], Null)]])

parseRequestV3(parsed) ==
    IF ~decodeOk(SchemaV3, parsed) THEN ParseThrows("Error: Invalid Type")
    ELSE LET p == decoded(SchemaV3, parsed)
         IN  Parsed([version |-> 3, id |-> Or(p["requestId"], RandomHex("id")),
                     args |-> p["args"], name |-> p["name"].str,
                     extra |-> IF Truthy(p["extra"])
                               THEN [NoExtra EXCEPT !.kind = "copy", !.of = p["extra"]]
                               ELSE NoExtra,
                     deviceInfo |->
                        [id |-> Or(p["deviceInfo.id"], RandomHex("device")),
                         language |-> Or(p["deviceInfo.language"], Null),
                         platform |-> PlatformObject(Or(p["deviceInfo.browserUserAgent"], Null)),
                         timezone |-> Or(p["deviceInfo.timezone"], Null),
                         type |-> Or(p["deviceInfo.type"], JString("api")),
                         version |-> Or(p["deviceInfo.version"], Null)]])

\* parseRequest(req, body): the parsers it ran (in `ran`) and its outcome.
\* JSON.parse throws on a body that is no JSON, `in` throws on a parsed value
\* that is no object, and the switch throws on any other version value.
parseRequest(body, mode) ==
    LET parsed == JsonParse(body)
        version == identifyRequestVersion(parsed)
    IN  IF parsed.json = "invalid"
        THEN [ran |-> <<>>, out |-> ParseThrows("SyntaxError: Unexpected token")]
        ELSE IF parsed.json = "primitive"
        THEN [ran |-> <<>>, out |-> ParseThrows("TypeError: Cannot use 'in' operator")]
        ELSE IF version = JNumber(1)
        THEN [ran |-> <<"parseRequestV1">>, out |-> parseRequestV1(parsed, mode)]
        ELSE IF version = JNumber(2)
        THEN [ran |-> <<"parseRequestV2">>, out |-> parseRequestV2(parsed)]
        ELSE IF version = JNumber(3)
        THEN [ran |-> <<"parseRequestV3">>, out |-> parseRequestV3(parsed)]
        ELSE [ran |-> <<>>, out |-> ParseThrows("Error: Failed to understand request")]

----------------------------------------------------------------------------
(* Replies and the response *)

NoError == [defined |-> FALSE, type |-> "", message |-> ""]
Error(type, message) == [defined |-> TRUE, type |-> type, message |-> message]

\* A ContextReply; NullReply is the null or undefined a hook returns.
NullReply == [nil |-> TRUE, result |-> Undefined, error |-> NoError]
SuccessReply(result) == [nil |-> FALSE, result |-> result, error |-> NoError]
ErrorReply(type, message) == [nil |-> FALSE, result |-> Undefined, error |-> Error(type, message)]

\* A thrown value: its type and message properties ("" when it has none or a
\* falsy one) and its toString().  A promise may also reject with undefined
\* or null (reject(), throw undefined): a value with no properties at all.
Thrown(type, message, text) ==
    [nullish |-> FALSE, type |-> type, message |-> message, text |-> text]
NothingThrown == Thrown("", "", "")
ThrownUndefined == [nullish |-> TRUE, type |-> "", message |-> "", text |-> ""]

\* The TypeError of reading a property of undefined or null.
TypeError == Thrown("", "Cannot read property of undefined", TypeErrorText)

\* The object handed to JSON.stringify: the keys it has, and the values of
\* those that are modelled (duration and host are keys whose values are not).
EmptyDoc ==
    [keys |-> {}, id |-> Undefined, ok |-> Undefined, deviceId |-> Undefined,
     result |-> Undefined, error |-> NoError]

\* JSON.stringify leaves out the keys whose value is undefined.
Stringify(doc) ==
    [doc EXCEPT !.keys = {k \in @ : k \in {"id", "ok", "deviceId", "result"} => doc[k] # Undefined}]

\* A ServerResponse: statusCode (200 until set), the headers set (by
\* lower-cased name), the documents written and the number of end() calls.
NewResponse == [statusCode |-> 200, headers |-> EmptyMap, written |-> <<>>, ended |-> 0]

setHeader(res, name, value) == [res EXCEPT !.headers = MapSet(@, ToLowerCase(name), value)]

\* An IncomingMessage: method, url, the Origin header ("" when absent) and
\* the address getClientIp finds ("" when it finds none).
NoRequestYet == [method |-> "", url |-> "", origin |-> "", ip |-> ""]

NoContext == [defined |-> FALSE, ip |-> "", request |-> NoRequest]

\* A request and what was done for it: `caught` is the exception the catch
\* of line 258 caught, `reply` the reply handed to onRequestEnd, `returned`
\* what onRequestEnd resolved to, `final` the reply handed to writeReply,
\* `handlerBody` the body an auxiliary handler was called with.
NewTask ==
    [pc |-> "idle", req |-> NoRequestYet, body |-> EmptyBody, res |-> NewResponse,
     ctx |-> NoContext, caught |-> NothingThrown, reply |-> NullReply,
     encodedRet |-> Undefined, returned |-> NullReply, final |-> NullReply,
     handlerBody |-> EmptyBody, calls |-> <<>>, log |-> <<>>]

----------------------------------------------------------------------------
(* writeReply *)

\* A mutant of the status rule: every error is a 500.
StatusCodeAlways500(error) == IF error.defined THEN 500 ELSE 200

\* response.error ? (response.error.type === "Fatal" ? 500 : 400) : 200
StatusCode(error) == IF error.defined THEN (IF error.type = "Fatal" THEN 500 ELSE 400) ELSE 200

\* A mutant of the context-less path: the status is left as it is.
writeReplyNoContextKeepsStatus(task, reply) ==
    LET r == IF ~reply.error.defined
             THEN ErrorReply("Fatal", "Response without context") ELSE reply
    IN  [task EXCEPT
            !.res.written = Append(@, Stringify([EmptyDoc EXCEPT !.keys = {"error"},
                                                                 !.error = r.error])),
            !.res.ended = @ + 1]

\* The context-less path.
writeReplyNoContext(task, reply) ==
    LET r == IF ~reply.error.defined
             THEN ErrorReply("Fatal", "Response without context") ELSE reply
    IN  [task EXCEPT
            !.res.statusCode = 500,
            !.res.written = Append(@, Stringify([EmptyDoc EXCEPT !.keys = {"error"},
                                                                 !.error = r.error])),
            !.res.ended = @ + 1]

\* result: reply.result || null
ResultOrNull(reply) == Or(reply.result, Null)

writeReplyV1(res, ctx, reply) ==
    LET response ==
            [keys |-> {"id", "ok", "deviceId", "duration", "host", "result", "error"},
             id |-> ctx.request.id,
             ok |-> JBool(~reply.error.defined),
             deviceId |-> ctx.request.deviceInfo.id,
             result |-> ResultOrNull(reply),
             error |-> reply.error]
    IN  [res EXCEPT !.statusCode = StatusCode(response.error),
                    !.written = Append(@, Stringify(response)),
                    !.ended = @ + 1]

\* A mutant of case 2: the status rule of the other generations applied.
writeReplyV2WithStatus(res, ctx, reply) ==
    [res EXCEPT !.statusCode = StatusCode(reply.error), !.ended = @ + 1]

writeReplyV2(res, ctx, reply) == [res EXCEPT !.ended = @ + 1]

writeReplyV3(res, ctx, reply) ==
    LET response ==
            [EmptyDoc EXCEPT !.keys = {"duration", "host", "result", "error"},
                             !.result = ResultOrNull(reply),
                             !.error = reply.error]
    IN  [res EXCEPT !.statusCode = StatusCode(response.error),
                    !.written = Append(@, Stringify(response)),
                    !.ended = @ + 1]

\* The access-log line, without its timestamp and duration.
AccessLine(ctx, reply) ==
    ctx.request.id.str \o " " \o ctx.request.name \o "() -> "
    \o (IF reply.error.defined THEN reply.error.type ELSE "OK")

\* writeReply(res, ctx, reply), on the task that owns res.
writeReply(task, ctx, reply) ==
    LET called == [task EXCEPT
                        !.calls = Append(@, IF ctx.defined THEN "writeReply(ctx)"
                                                           ELSE "writeReply(null)"),
                        !.final = reply]
    IN  IF ~ctx.defined THEN writeReplyNoContext(called, reply)
        ELSE LET logged == [called EXCEPT !.log = Append(@, AccessLine(ctx, reply))]
             IN  CASE ctx.request.version = 1 ->
                        [logged EXCEPT !.res = writeReplyV1(@, ctx, reply)]
                   [] ctx.request.version = 2 ->
                        [logged EXCEPT !.res = writeReplyV2(@, ctx, reply)]
                   [] ctx.request.version = 3 ->
                        [logged EXCEPT !.res = writeReplyV3(@, ctx, reply)]
                   [] OTHER -> logged

\* The catch of handleRequest: the rejection of handleRequestWithBody is
\* written as a context-less Fatal reply.  e.toString() of undefined or null
\* throws inside the catch callback: the promise the catch returns is
\* rejected with nobody to handle it, and the response is never ended.
Rejected(task, e) ==
    IF e.nullish THEN [task EXCEPT !.pc = "unhandledRejection"]
    ELSE [writeReply(task, NoContext, ErrorReply("Fatal", e.text)) EXCEPT !.pc = "done"]

----------------------------------------------------------------------------
(* The host application: function table, implementations, hooks *)

\* The names apiConfig.astJson.functionTable and apiConfig.fn have.
FunctionTable == {"ping", "calc", "ghost"}
Implementations == {"ping", "calc", "orphan"}

\* What a hook or a function does when awaited: it returns or it throws.
Returns(reply) == [kind |-> "return", reply |-> reply, value |-> Undefined, error |-> NothingThrown]
ReturnsValue(v) == [kind |-> "return", reply |-> NullReply, value |-> v, error |-> NothingThrown]
Throws(e) == [kind |-> "throw", reply |-> NullReply, value |-> Undefined, error |-> e]

BusinessException == Thrown("NotFound", "no such thing", "Error: no such thing")
PlainException == Thrown("", "", "boom")

OnRequestStartOutcomes ==
    {Returns(NullReply), Returns(SuccessReply(JString("cached"))),
     Returns(ErrorReply("Forbidden", "denied")),
     Throws(BusinessException), Throws(PlainException), Throws(ThrownUndefined)}

OnRequestEndOutcomes ==
    {Returns(NullReply), Returns(SuccessReply(JString("rewritten"))),
     Returns(ErrorReply("Fatal", "hook")), Returns(ErrorReply("Masked", "hook")),
     Throws(PlainException), Throws(ThrownUndefined)}

OnHealthCheckOutcomes ==
    {ReturnsValue(JBool(TRUE)), ReturnsValue(JBool(FALSE)), Throws(PlainException),
     Throws(ThrownUndefined)}

\* What an auxiliary handler does: it returns or it throws.
HandlerOutcomes == {Returns(NullReply), Throws(PlainException), Throws(ThrownUndefined)}

\* The values a function returns; ping returns "pong".
ReturnValues ==
    {JString("pong"), JString(""), JNumber(0), JNumber(7), JBool(FALSE), Undefined}

FunctionOutcomes(name) ==
    IF name = "ping" THEN {ReturnsValue(JString("pong"))}
    ELSE {ReturnsValue(v) : v \in ReturnValues}
         \cup {Throws(BusinessException), Throws(PlainException), Throws(ThrownUndefined)}

\* decode and encode of ./encode-decode on the arguments and on the returned
\* value: the value itself when it conforms to the function's schema, an
\* exception without a type when it does not.
CodecException == Thrown("", "Invalid Type", "Error: Invalid Type")

decodeArgs(args, conforms) == IF conforms THEN ReturnsValue(args) ELSE Throws(CodecException)
encodeRet(ret, conforms) == IF conforms THEN ReturnsValue(ret) ELSE Throws(CodecException)

----------------------------------------------------------------------------
(* handleRequest *)

Methods == {"OPTIONS", "HEAD", "GET", "POST", "PUT"}
Urls == {"/rpc", "/api/hook", "/targets/node/api.ts?v=1"}
Origins == {"", "https://a.example"}
ClientIps == {"", "10.0.0.1"}

Requests == [method : Methods, url : Urls, origin : Origins, ip : ClientIps]

\* A mutant of the loop: OPTIONS gets every registered header.
RECURSIVE SetHeadersUnfiltered(_, _, _, _)
SetHeadersUnfiltered(res, hs, names, method) ==
    IF names = {} THEN res
    ELSE LET header == CHOOSE h \in names : TRUE
         IN  SetHeadersUnfiltered(setHeader(res, header, hs[header]), hs, names \ {header}, method)

\* for (const [header, value] of this.headers): the names in insertion
\* order are distinct, so the order they are set in does not show.
RECURSIVE SetHeaders(_, _, _, _)
SetHeaders(res, hs, names, method) ==
    IF names = {} THEN res
    ELSE LET header == CHOOSE h \in names : TRUE
             skip == method = "OPTIONS" /\ ~StartsWith(header, "access-control-")
         IN  SetHeaders(IF skip THEN res ELSE setHeader(res, header, hs[header]),
                        hs, names \ {header}, method)

\* Lines 140-143: the Origin echo.
CorsOrigin(res, req, dynamic) ==
    IF dynamic /\ req.origin # ""
    THEN setHeader(setHeader(res, "Access-Control-Allow-Origin", req.origin), "Vary", "Origin")
    ELSE res

\* handleRequest(req, res): the headers, then the OPTIONS short-circuit or the
\* wait for the body.
HandleRequest(t, req) ==
    /\ tasks[t].pc = "idle"
    /\ LET res == SetHeaders(CorsOrigin(NewResponse, req, dynamicCorsOrigin),
                             headers, DOMAIN headers, req.method)
       IN  tasks' = [tasks EXCEPT ![t] =
                IF req.method = "OPTIONS"
                THEN [@ EXCEPT !.req = req, !.pc = "done",
                               !.res = [res EXCEPT !.statusCode = 200, !.ended = @ + 1]]
                ELSE [@ EXCEPT !.req = req, !.pc = "reading", !.res = res]]
    /\ UNCHANGED <<headers, handlers, dynamicCorsOrigin, ignoredUrlPrefix, addHeaderCalls, found>>

\* The chunks that may come next: the first one tells the document and how
\* many chunks it still lacks, a later one is the next of that document.
NextChunks(task) ==
    IF task.body.empty
    THEN {Buffered(doc, missing) :
            doc \in (IF task.req.method = "POST" THEN Bodies ELSE OtherBodies),
            missing \in 0..(MaxChunks - 1)}
    ELSE IF task.body.missing > 0
    THEN {Buffered(task.body.doc, task.body.missing - 1)}
    ELSE {}

\* body += chunk, on the body of the request the listener was registered for.
Chunk(t, buffered) ==
    /\ tasks[t].pc = "reading"
    /\ tasks' = [tasks EXCEPT ![t].body = buffered]
    /\ UNCHANGED <<headers, handlers, dynamicCorsOrigin, ignoredUrlPrefix, addHeaderCalls, found>>

\* req.on("data"): body += chunk.
Data(t) == \E buffered \in NextChunks(tasks[t]) : Chunk(t, buffered)

----------------------------------------------------------------------------
(* handleRequestWithBody *)

\* parseUrl(url).pathname: the url up to its query
Pathname(url) == IF IndexOf(url, "?") < 0 THEN url ELSE SubSeq(url, 1, IndexOf(url, "?"))

\* A mutant of lines 171-172: the prefix is not stripped.
StripPrefixNever(path, prefix) == path

StripPrefix(path, prefix) == IF StartsWith(path, prefix) THEN Slice(path, Len(prefix)) ELSE path

Call(task, name) == [task EXCEPT !.calls = Append(@, name)]

RECURSIVE CallAll(_, _)
CallAll(task, names) ==
    IF names = <<>> THEN task ELSE CallAll(Call(task, Head(names)), Tail(names))

\* A mutant of the lookup: only the function table is asked.
FunctionMissingTableOnly(name) == name \notin FunctionTable

\* !functionDescription || !functionImplementation
FunctionMissing(name) == name \notin FunctionTable \/ name \notin Implementations

\* Lines 258-264: the reply made of a caught exception.
CaughtReply(e) ==
    ErrorReply(IF e.type # "" THEN e.type ELSE "Fatal",
               IF e.message # "" THEN e.message ELSE e.text)

\* Line 267, up to the await: onRequestEnd is called with the reply.
CallOnRequestEnd(task, reply) ==
    [Call(task, "onRequestEnd") EXCEPT !.reply = reply, !.pc = "onRequestEnd"]

\* Lines 258-267: the exception of the try block is caught, made a reply and
\* handed to onRequestEnd.  Reading e.type of undefined or null throws a
\* TypeError out of the catch block, which rejects handleRequestWithBody.
Catch(task, e) ==
    LET caught == [Call(task, "catch") EXCEPT !.caught = e]
    IN  IF e.nullish THEN Rejected(caught, TypeError)
        ELSE CallOnRequestEnd(caught, CaughtReply(e))

\* Lines 208-251: the POST path up to the call of onRequestStart.
Dispatch(task, mode) ==
    LET parse == parseRequest(task.body, mode)
        parsedTask == CallAll(Call(task, "getClientIp"), <<"parseRequest">> \o parse.ran)
        ctx == [defined |-> TRUE, ip |-> task.req.ip, request |-> parse.out.request]
        withCtx == [parsedTask EXCEPT !.ctx = ctx]
    IN  IF task.req.ip = ""
        THEN [writeReply(Call(task, "getClientIp"), NoContext,
                         ErrorReply("Fatal", "Couldn't determine client IP"))
                EXCEPT !.pc = "done"]
        ELSE IF ~parse.out.ok
        THEN Rejected(parsedTask, Thrown("", "", parse.out.error))
        ELSE IF FunctionMissing(ctx.request.name)
        THEN [writeReply(withCtx, ctx,
                         ErrorReply("Fatal", "Function does not exist: " \o ctx.request.name))
                EXCEPT !.pc = "done"]
        ELSE [Call(withCtx, "onRequestStart") EXCEPT !.pc = "onRequestStart"]

\* handleRequestWithBody up to its first await (or its return).  `handled`
\* is what an auxiliary handler does when called (it returns or throws),
\* `mode` the decoder the server runs with.
handleRequestWithBody(task, hs, prefix, handled, mode) ==
    LET path == StripPrefix(Pathname(task.req.url), prefix)
        externalHandler == findBestHandler(hs, path, task.req.method)
        json == [task EXCEPT !.res = setHeader(@, "Content-Type", "application/json; charset=utf-8")]
    IN  IF externalHandler # NoHandler
        THEN LET called == [Call(task, "handler") EXCEPT
                                !.log = Append(@, "HTTP " \o task.req.method \o " " \o path),
                                !.handlerBody = task.body]
             IN  IF handled.kind = "throw"
                 THEN Rejected(Call(called, "handler:throw"), handled.error)
                 ELSE [called EXCEPT !.pc = "done"]
        ELSE IF task.req.method = "HEAD"
        THEN [json EXCEPT !.res.statusCode = 200, !.res.ended = @ + 1, !.pc = "done"]
        ELSE IF task.req.method = "GET"
        THEN [Call(json, "onHealthCheck") EXCEPT !.pc = "onHealthCheck"]
        ELSE IF task.req.method # "POST"
        THEN [json EXCEPT !.res.statusCode = 400, !.res.ended = @ + 1, !.pc = "done"]
        ELSE Dispatch(json, mode)

\* req.on("end"): handleRequestWithBody runs to its first await.
End(t) ==
    /\ tasks[t].pc = "reading"
    /\ tasks[t].body.empty \/ tasks[t].body.missing = 0
    /\ \E handled \in HandlerOutcomes, mode \in DecoderModes :
        tasks' = [tasks EXCEPT ![t] =
                    handleRequestWithBody(@, handlers, ignoredUrlPrefix, handled, mode)]
    /\ UNCHANGED <<headers, handlers, dynamicCorsOrigin, ignoredUrlPrefix, addHeaderCalls, found>>

\* A mutant of lines 191-195: nothing stands in for the value of a hook that threw.
HealthCheckOkUncaught(outcome) == outcome.value

\* Lines 191-195: ok is what the hook resolves to, false when it throws.
HealthCheckOk(outcome) == IF outcome.kind = "throw" THEN JBool(FALSE) ELSE outcome.value

\* Lines 191-199: onHealthCheck settles.
OnHealthCheckSettles(t, outcome) ==
    /\ tasks[t].pc = "onHealthCheck"
    /\ LET ok == HealthCheckOk(outcome)
           settled == IF outcome.kind = "throw" THEN "onHealthCheck:throw"
                      ELSE IF Truthy(outcome.value) THEN "onHealthCheck:true"
                      ELSE "onHealthCheck:false"
       IN  tasks' = [tasks EXCEPT ![t] =
                [Call(@, settled)
                    EXCEPT !.res.statusCode = IF Truthy(ok) THEN 200 ELSE 500,
                          !.res.written = Append(@, Stringify([EmptyDoc EXCEPT !.keys = {"ok"},
                                                                               !.ok = ok])),
                          !.res.ended = @ + 1,
                          !.pc = "done"]]
    /\ UNCHANGED <<headers, handlers, dynamicCorsOrigin, ignoredUrlPrefix, addHeaderCalls, found>>

\* A mutant of line 252: the reply of onRequestStart never stands in for the call.
ShortCircuitsNever(reply) == FALSE

\* Line 252, if (!reply): the reply onRequestStart returned stands in for the call.
ShortCircuits(reply) == ~reply.nil

\* Lines 251-254: onRequestStart settles; with no reply from it the
\* arguments are decoded and the function is called.
OnRequestStartSettles(t, outcome, argsConform) ==
    /\ tasks[t].pc = "onRequestStart"
    /\ LET task == tasks[t]
           args == decodeArgs(task.ctx.request.args, argsConform)
           returned == Call(task, IF outcome.reply.nil THEN "onRequestStart:null"
                                                       ELSE "onRequestStart:reply")
       IN  tasks' = [tasks EXCEPT ![t] =
                IF outcome.kind = "throw"
                THEN Catch(Call(task, "onRequestStart:throw"), outcome.error)
                ELSE IF ShortCircuits(outcome.reply)
                THEN CallOnRequestEnd(returned, outcome.reply)
                ELSE IF args.kind = "throw"
                THEN Catch(CallAll(returned, <<"decode", "decode:throw">>), args.error)
                ELSE [CallAll(returned, <<"decode", "function">>) EXCEPT !.pc = "function"]]
    /\ UNCHANGED <<headers, handlers, dynamicCorsOrigin, ignoredUrlPrefix, addHeaderCalls, found>>

\* Lines 254-256: the function settles; its value is encoded and made the reply.
FunctionSettles(t, outcome, retConforms) ==
    /\ tasks[t].pc = "function"
    /\ LET task == tasks[t]
           encoded == encodeRet(outcome.value, retConforms)
       IN  tasks' = [tasks EXCEPT ![t] =
                IF outcome.kind = "throw"
                THEN Catch(Call(task, "function:throw"), outcome.error)
                ELSE IF encoded.kind = "throw"
                THEN Catch(CallAll(task, <<"function:return", "encode", "encode:throw">>),
                           encoded.error)
                ELSE CallOnRequestEnd(
                        [CallAll(task, <<"function:return", "encode">>)
                            EXCEPT !.encodedRet = encoded.value],
                        SuccessReply(encoded.value))]
    /\ UNCHANGED <<headers, handlers, dynamicCorsOrigin, ignoredUrlPrefix, addHeaderCalls, found>>

\* Line 254, await functionImplementation(ctx, args): the promise of the
\* function is never settled; nothing after the await runs for this request.
FunctionNeverResolves(t) ==
    /\ tasks[t].pc = "function"
    /\ tasks' = [tasks EXCEPT ![t] = [Call(@, "function:pending") EXCEPT !.pc = "pending"]]
    /\ UNCHANGED <<headers, handlers, dynamicCorsOrigin, ignoredUrlPrefix, addHeaderCalls, found>>

\* A mutant of line 267: what onRequestEnd returns is dropped.
FinalReplyOwn(returned, own) == own

\* await this.apiConfig.hook.onRequestEnd(ctx, reply) || reply
FinalReply(returned, own) == IF returned.nil THEN own ELSE returned

\* Lines 267-268: onRequestEnd settles and the reply is written; its
\* exception rejects handleRequestWithBody.
OnRequestEndSettles(t, outcome) ==
    /\ tasks[t].pc = "onRequestEnd"
    /\ LET task == tasks[t]
           reply == FinalReply(outcome.reply, task.reply)
       IN  tasks' = [tasks EXCEPT ![t] =
                IF outcome.kind = "throw"
                THEN Rejected(Call(task, "onRequestEnd:throw"), outcome.error)
                ELSE [writeReply([Call(task, IF outcome.reply.nil THEN "onRequestEnd:null"
                                                                  ELSE "onRequestEnd:reply")
                                    EXCEPT !.returned = outcome.reply],
                                 task.ctx, reply)
                        EXCEPT !.pc = "done"]]
    /\ UNCHANGED <<headers, handlers, dynamicCorsOrigin, ignoredUrlPrefix, addHeaderCalls, found>>

----------------------------------------------------------------------------
(* The server under requests *)

\* The addHeader calls and the addHttpHandler call made before listening.
ExtraHeaderCalls ==
    { <<>>,
      << [header |-> "X-Powered-By", value |-> "sdkgen"],
         [header |-> "Access-Control-Allow-Origin", value |-> "*"],
         [header |-> "Vary", value |-> "Accept"] >> }

UserHandlers ==
    << [method |-> "POST", matcher |-> Pattern("/hook", TRUE), handler |-> 5],
       [method |-> "HEAD", matcher |-> Literal("/rpc"), handler |-> 6] >>

UrlPrefixes == {"", "/api"}

TaskIds == {1}

Init ==
    /\ \E extra \in ExtraHeaderCalls :
        /\ addHeaderCalls = enableCorsCalls \o extra
        /\ headers = ApplyAddHeader(EmptyMap, enableCorsCalls \o extra)
    /\ handlers = ConstructorHandlers \o UserHandlers
    /\ dynamicCorsOrigin \in BOOLEAN
    /\ ignoredUrlPrefix \in UrlPrefixes
    /\ found = NotCalled
    /\ tasks = [t \in TaskIds |-> NewTask]

Next ==
    \/ \E t \in DOMAIN tasks, req \in Requests : HandleRequest(t, req)
    \/ \E t \in DOMAIN tasks : Data(t)
    \/ \E t \in DOMAIN tasks : End(t)
    \/ \E t \in DOMAIN tasks, outcome \in OnHealthCheckOutcomes : OnHealthCheckSettles(t, outcome)
    \/ \E t \in DOMAIN tasks, outcome \in OnRequestStartOutcomes, argsConform \in BOOLEAN :
            OnRequestStartSettles(t, outcome, argsConform)
    \/ \E t \in DOMAIN tasks, retConforms \in BOOLEAN :
            \E outcome \in FunctionOutcomes(tasks[t].ctx.request.name) :
                FunctionSettles(t, outcome, retConforms)
    \/ \E t \in DOMAIN tasks, outcome \in OnRequestEndOutcomes : OnRequestEndSettles(t, outcome)

Spec == Init /\ [][Next]_vars

----------------------------------------------------------------------------
(* Specifications of the two registries alone *)

NoTasks == [t \in {} |-> 0]

InitServer ==
    /\ headers = enableCors
    /\ addHeaderCalls = enableCorsCalls
    /\ handlers = ConstructorHandlers
    /\ dynamicCorsOrigin = TRUE
    /\ ignoredUrlPrefix = ""
    /\ found = NotCalled

InitHeaders == InitServer /\ tasks = NoTasks

NextHeaders == \E h \in HeaderNames, v \in HeaderValues : AddHeader(h, v)

SpecHeaders == InitHeaders /\ [][NextHeaders]_vars

InitRoutes == InitServer /\ tasks = NoTasks

NextRoutes ==
    \/ \E e \in RouteEntries : AddHttpHandler(e.method, e.matcher)
    \/ \E m \in RouteMethods, p \in RoutePaths : FindBestHandler(m, p)

SpecRoutes == InitRoutes /\ [][NextRoutes]_vars

----------------------------------------------------------------------------
(* The server under two requests in flight *)

\* Two clients, each with an id, a device, an address and a value its
\* function returns that the other does not have.
ConcurrentTasks == {1, 2}
ConcurrentIds == <<"r1", "r2">>
ConcurrentDevices == <<"d1", "d2">>
ConcurrentIps == <<"10.0.0.1", "10.0.0.2">>
ConcurrentResults == <<JString("one"), JString("two")>>

ConcurrentRequest(t) ==
    [method |-> "POST", url |-> "/rpc", origin |-> "", ip |-> ConcurrentIps[t]]

\* The V1 and the V3 call of calc that client t sends.
ConcurrentV1(t) ==
    Object("id" :> JString(ConcurrentIds[t]) @@ "name" :> JString("calc")
           @@ "args" :> JObject("args") @@ "device" :> JObject("device")
           @@ "device.id" :> JString(ConcurrentDevices[t]))
ConcurrentV3(t) ==
    V3Body("calc", JString(ConcurrentIds[t]),
           "deviceInfo" :> JObject("deviceInfo")
           @@ "deviceInfo.id" :> JString(ConcurrentDevices[t]))
ConcurrentBodies(t) == {ConcurrentV1(t), ConcurrentV3(t)}

ConcurrentChunks(t) ==
    IF tasks[t].body.empty
    THEN {Buffered(doc, missing) : doc \in ConcurrentBodies(t), missing \in 0..(MaxChunks - 1)}
    ELSE NextChunks(tasks[t])

\* What calc does for client t: it returns the client's value, or 0, or it
\* throws; or it never settles (FunctionNeverResolves).
ConcurrentOutcomes(t) ==
    {ReturnsValue(ConcurrentResults[t]), ReturnsValue(JNumber(0)), Throws(BusinessException)}

InitConcurrent == InitServer /\ tasks = [t \in ConcurrentTasks |-> NewTask]

\* Every step is a callback of one request running to its next await; the
\* callbacks of the two requests interleave in any order.
Arrives(t) == HandleRequest(t, ConcurrentRequest(t))
Receives(t) == \E buffered \in ConcurrentChunks(t) : Chunk(t, buffered)
Starts(t) == OnRequestStartSettles(t, Returns(NullReply), TRUE)
Runs(t) == \E outcome \in ConcurrentOutcomes(t) : FunctionSettles(t, outcome, TRUE)
Ends(t) == OnRequestEndSettles(t, Returns(NullReply))

NextConcurrent ==
    \/ \E t \in DOMAIN tasks : Arrives(t)
    \/ \E t \in DOMAIN tasks : Receives(t)
    \/ \E t \in DOMAIN tasks : End(t)
    \/ \E t \in DOMAIN tasks : Starts(t)
    \/ \E t \in DOMAIN tasks : Runs(t)
    \/ \E t \in DOMAIN tasks : FunctionNeverResolves(t)
    \/ \E t \in DOMAIN tasks : Ends(t)

SpecConcurrent == InitConcurrent /\ [][NextConcurrent]_vars

----------------------------------------------------------------------------
(* The requests the claims are about *)

Has(task, name) == \E i \in DOMAIN task.calls : task.calls[i] = name

Count(task, names) == Cardinality({i \in DOMAIN task.calls : task.calls[i] \in names})

Parsers == {"parseRequestV1", "parseRequestV2", "parseRequestV3"}
HostCalls ==
    {"handler", "onHealthCheck", "onRequestStart", "decode", "function", "encode",
     "onRequestEnd"}

\* The requests that are answered.
Answered == {t \in DOMAIN tasks : tasks[t].pc = "done"}

\* The answered POSTs that no auxiliary handler took, from a client whose
\* address was found: the ones parseRequest was called for.
Dispatched == {t \in Answered : Has(tasks[t], "parseRequest")}

\* The answered requests whose reply was written with the context.
WithContext == {t \in Answered : Has(tasks[t], "writeReply(ctx)")}

\* The document of a response that holds exactly one.
Doc(task) == task.res.written[1]

\* No hook returned a reply and none threw.
HooksReturnNothing(task) ==
    /\ ~Has(task, "onRequestStart:reply") /\ ~Has(task, "onRequestStart:throw")
    /\ ~Has(task, "onRequestEnd:reply") /\ ~Has(task, "onRequestEnd:throw")

----------------------------------------------------------------------------
(* C1: the scenario *)

\* C1 as stated: the POST of the scenario body is answered with status 200 and
\* a body with result = "pong" and error = null.
C1_Scenario200 ==
    \A t \in Dispatched :
        tasks[t].body.doc = ScenarioBody /\ HooksReturnNothing(tasks[t]) =>
            /\ tasks[t].res.statusCode = 200
            /\ Len(tasks[t].res.written) = 1
            /\ Doc(tasks[t]).result = JString("pong")
            /\ "error" \in Doc(tasks[t]).keys /\ ~Doc(tasks[t]).error.defined

\* C1, amended: the scenario body has a requestId and no version, so it goes
\* to the V2 parser, which rejects it (no deviceId, no info): status 500, a
\* body holding only a Fatal error, no context, nothing of the host called.
\* The same body with version 3 added, where the function ran, its value was
\* encoded and the hooks returned nothing, is answered with status 200,
\* result = "pong" and error = null.
C1_ScenarioAmended ==
    \A t \in Dispatched :
        /\ tasks[t].body.doc = ScenarioBody =>
            /\ Has(tasks[t], "parseRequestV2") /\ Count(tasks[t], Parsers) = 1
            /\ tasks[t].res.statusCode = 500
            /\ Len(tasks[t].res.written) = 1
            /\ Doc(tasks[t]).keys = {"error"} /\ Doc(tasks[t]).error.type = "Fatal"
            /\ ~tasks[t].ctx.defined /\ Count(tasks[t], HostCalls) = 0
        /\ /\ tasks[t].body.doc = With(ScenarioBody, "version", JNumber(3))
           /\ HooksReturnNothing(tasks[t])
           /\ Has(tasks[t], "function:return") /\ ~Has(tasks[t], "encode:throw")
           => /\ tasks[t].res.statusCode = 200
              /\ Len(tasks[t].res.written) = 1
              /\ Doc(tasks[t]).result = JString("pong")
              /\ "error" \in Doc(tasks[t]).keys /\ ~Doc(tasks[t]).error.defined

\* Both cases of the amended scenario are answered.
C1_Witness ==
    \E t \in Dispatched :
        /\ tasks[t].body.doc = With(ScenarioBody, "version", JNumber(3))
        /\ HooksReturnNothing(tasks[t])
        /\ Has(tasks[t], "function:return") /\ ~Has(tasks[t], "encode:throw")
        /\ tasks[t].res.statusCode = 200

C1_WitnessV2 ==
    \E t \in Dispatched : tasks[t].body.doc = ScenarioBody /\ tasks[t].res.statusCode = 500

----------------------------------------------------------------------------
(* C2: version detection *)

\* The parser the detection rule names for a parsed object: the one of the
\* version value when there is a version field, 2 when there is a requestId
\* field, 1 otherwise; "" when the version value is none of 1, 2, 3.
C2_ParserFor(parsed) ==
    LET v == parsed.fields["version"]
    IN  IF v # Undefined
        THEN (IF v = JNumber(1) THEN "parseRequestV1"
              ELSE IF v = JNumber(2) THEN "parseRequestV2"
              ELSE IF v = JNumber(3) THEN "parseRequestV3" ELSE "")
        ELSE IF parsed.fields["requestId"] # Undefined THEN "parseRequestV2"
        ELSE "parseRequestV1"

C2_WitnessNone ==
    \E t \in Dispatched :
        tasks[t].body.doc.fields["version"] = JNumber(4) /\ Count(tasks[t], Parsers) = 0

----------------------------------------------------------------------------
(* C3: the status of a V1 or V3 reply *)

\* C3: a reply written with context to a V1 or V3 request has status 500 when
\* the reply handed to writeReply has an error of kind Fatal, 400 when it has
\* an error of another kind, 200 when it has none.
C3_Status ==
    \A t \in WithContext :
        tasks[t].ctx.request.version \in {1, 3} =>
            LET error == tasks[t].final.error
            IN  tasks[t].res.statusCode =
                    (IF ~error.defined THEN 200 ELSE IF error.type = "Fatal" THEN 500 ELSE 400)

\* A V3 request whose function threw a business error is answered 400.
C3_Witness ==
    \E t \in WithContext :
        /\ tasks[t].ctx.request.version = 3
        /\ Has(tasks[t], "function:throw")
        /\ tasks[t].final.error.type = "NotFound"
        /\ tasks[t].res.statusCode = 400

----------------------------------------------------------------------------
(* C4: the reply to a V2 request *)

\* C4: a reply written with context to a V2 request has an empty body and
\* status 200, whatever the reply is.
C4_EmptyOk ==
    \A t \in WithContext :
        tasks[t].ctx.request.version = 2 =>
            tasks[t].res.written = <<>> /\ tasks[t].res.statusCode = 200

\* A V2 request for an unknown function: a Fatal reply, answered 200 and empty.
C4_Witness ==
    \E t \in WithContext :
        /\ tasks[t].ctx.request.version = 2
        /\ tasks[t].final.error.type = "Fatal"
        /\ tasks[t].ctx.request.name = "nope"
        /\ tasks[t].res.ended = 1

----------------------------------------------------------------------------
(* C5: unknown function *)

\* The answered requests that were parsed and name a function the function
\* table or the implementations lack.
C5_Unknown ==
    {t \in Answered :
        /\ tasks[t].ctx.defined
        /\ \/ tasks[t].ctx.request.name \notin FunctionTable
           \/ tasks[t].ctx.request.name \notin Implementations}

\* C5 as stated: a Fatal reply whose message contains the name, status 500,
\* and ok = false in the V1 and V3 bodies.
C5_Status500 ==
    \A t \in C5_Unknown :
        /\ tasks[t].final.error.type = "Fatal"
        /\ Includes(tasks[t].final.error.message, tasks[t].ctx.request.name)
        /\ tasks[t].res.statusCode = 500
        /\ tasks[t].ctx.request.version \in {1, 3} =>
            /\ Len(tasks[t].res.written) = 1
            /\ "ok" \in Doc(tasks[t]).keys /\ Doc(tasks[t]).ok = JBool(FALSE)

\* C5, amended: a Fatal reply whose message contains the name, for every
\* generation; status 500 for V1 and V3, whose body carries the error and a
\* null result; ok = false in the V1 body only (the V3 body has no ok); an
\* empty body with status 200 for V2.  No hook and no function is called.
C5_UnknownFunction ==
    \A t \in C5_Unknown :
        /\ tasks[t].final.error.type = "Fatal"
        /\ Includes(tasks[t].final.error.message, tasks[t].ctx.request.name)
        /\ Count(tasks[t], HostCalls) = 0
        /\ tasks[t].ctx.request.version \in {1, 3} =>
            /\ tasks[t].res.statusCode = 500
            /\ Len(tasks[t].res.written) = 1
            /\ Doc(tasks[t]).error = tasks[t].final.error
            /\ Doc(tasks[t]).result = Null
        /\ tasks[t].ctx.request.version = 1 =>
            "ok" \in Doc(tasks[t]).keys /\ Doc(tasks[t]).ok = JBool(FALSE)
        /\ tasks[t].ctx.request.version = 3 => "ok" \notin Doc(tasks[t]).keys
        /\ tasks[t].ctx.request.version = 2 =>
            tasks[t].res.statusCode = 200 /\ tasks[t].res.written = <<>>

\* A function the table has and the implementations lack, asked for.
C5_Witness ==
    \E t \in C5_Unknown :
        /\ tasks[t].ctx.request.name \in FunctionTable
        /\ Has(tasks[t], "writeReply(ctx)")

C5_WitnessV3 ==
    \E t \in C5_Unknown : tasks[t].ctx.request.version = 3 /\ tasks[t].res.statusCode = 500

----------------------------------------------------------------------------
(* C6: OPTIONS *)

C6_Options == {t \in Answered : tasks[t].req.method = "OPTIONS"}

\* C6 as stated: status 200, an empty body, only access-control- headers, and
\* nothing of the host called.
C6_OnlyAccessControl ==
    \A t \in C6_Options :
        /\ tasks[t].res.statusCode = 200 /\ tasks[t].res.written = <<>>
        /\ \A h \in DOMAIN tasks[t].res.headers : StartsWith(h, "access-control-")
        /\ tasks[t].calls = <<>>

\* C6, amended: status 200, an empty body, nothing of the host called, and
\* only access-control- headers except Vary: Origin, which is set exactly
\* when dynamic-origin mode is on and the request has an Origin header.
C6_OptionsAmended ==
    \A t \in C6_Options :
        /\ tasks[t].res.statusCode = 200 /\ tasks[t].res.written = <<>>
        /\ tasks[t].res.ended = 1
        /\ tasks[t].calls = <<>>
        /\ \A h \in DOMAIN tasks[t].res.headers : StartsWith(h, "access-control-") \/ h = "vary"
        /\ "vary" \in DOMAIN tasks[t].res.headers
            <=> dynamicCorsOrigin /\ tasks[t].req.origin # ""
        /\ "vary" \in DOMAIN tasks[t].res.headers => tasks[t].res.headers["vary"] = "Origin"

\* An OPTIONS request with an Origin header, answered by a server with
\* registered headers that are no CORS headers.
C6_Witness ==
    \E t \in C6_Options :
        /\ tasks[t].req.origin # "" /\ dynamicCorsOrigin
        /\ "x-powered-by" \in DOMAIN headers
        /\ "access-control-max-age" \in DOMAIN tasks[t].res.headers

----------------------------------------------------------------------------
(* C7: the V1 round trip *)

\* C7 as stated: a V1 request whose function returned, whose value was
\* encoded to r, and whose reply onRequestEnd left alone, is answered with
\* result = r, error = null, ok = true and status 200.
C7_RoundTrip ==
    \A t \in WithContext :
        /\ tasks[t].ctx.request.version = 1
        /\ tasks[t].encodedRet # Undefined
        /\ Has(tasks[t], "onRequestEnd:null")
        => /\ Len(tasks[t].res.written) = 1
           /\ Doc(tasks[t]).result = tasks[t].encodedRet
           /\ "error" \in Doc(tasks[t]).keys /\ ~Doc(tasks[t]).error.defined
           /\ Doc(tasks[t]).ok = JBool(TRUE)
           /\ tasks[t].res.statusCode = 200

----------------------------------------------------------------------------
(* C9: a body that cannot be parsed *)

C9_Unparsable ==
    {t \in Dispatched :
        LET parsed == JsonParse(tasks[t].body)
        IN  \/ parsed.json = "invalid"
            \/ /\ parsed.json = "object"
               /\ parsed.fields["version"] \notin {Undefined, JNumber(1), JNumber(2), JNumber(3)}}

\* C9: a POST whose body is no JSON, or has a version that is none of 1, 2, 3,
\* is answered with status 500 and a body holding only a Fatal error; no
\* context is formed, no access-log line is written, nothing of the host is
\* called.
C9_ParseFailure ==
    \A t \in C9_Unparsable :
        /\ tasks[t].res.statusCode = 500
        /\ Len(tasks[t].res.written) = 1
        /\ Doc(tasks[t]).keys = {"error"}
        /\ Doc(tasks[t]).error.defined /\ Doc(tasks[t]).error.type = "Fatal"
        /\ ~tasks[t].ctx.defined
        /\ tasks[t].log = <<>>
        /\ Count(tasks[t], HostCalls) = 0
        /\ Count(tasks[t], Parsers) = 0

\* A body with version "3" (a string) and a body that is no JSON, answered.
C9_Witness ==
    \E t \in C9_Unparsable :
        /\ tasks[t].body.doc.fields["version"] = JString("3")
        /\ tasks[t].res.ended = 1

C9_WitnessInvalid ==
    \E t \in C9_Unparsable : JsonParse(tasks[t].body).json = "invalid" /\ tasks[t].res.ended = 1

----------------------------------------------------------------------------
(* C11: the health check *)

\* The steps of the RPC dispatch of a POST.
DispatchCalls ==
    {"getClientIp", "parseRequest", "onRequestStart", "decode", "function", "encode",
     "onRequestEnd", "writeReply(ctx)", "writeReply(null)"} \cup Parsers

\* The GETs that no auxiliary handler took, after the end of their body.
C11_HealthChecks ==
    {t \in DOMAIN tasks :
        /\ tasks[t].req.method = "GET" /\ tasks[t].pc \notin {"idle", "reading"}
        /\ ~Has(tasks[t], "handler")}

\* C11: a GET that no auxiliary handler takes calls onHealthCheck exactly
\* once and, once the hook has settled, is answered: 200 and {ok: true} when
\* it returned true, 500 and {ok: false} when it returned false or threw; no
\* step of the RPC dispatch runs and the exception goes no further.
C11_HealthCheck ==
    \A t \in C11_HealthChecks :
        /\ Count(tasks[t], {"onHealthCheck"}) = 1
        /\ Count(tasks[t], DispatchCalls \cup {"handler"}) = 0
        /\ tasks[t].pc \in {"onHealthCheck", "done"}
        /\ tasks[t].pc = "done" =>
            /\ Len(tasks[t].res.written) = 1 /\ tasks[t].res.ended = 1
            /\ Doc(tasks[t]).keys = {"ok"}
            /\ Has(tasks[t], "onHealthCheck:true") =>
                    tasks[t].res.statusCode = 200 /\ Doc(tasks[t]).ok = JBool(TRUE)
            /\ Has(tasks[t], "onHealthCheck:false") \/ Has(tasks[t], "onHealthCheck:throw") =>
                    tasks[t].res.statusCode = 500 /\ Doc(tasks[t]).ok = JBool(FALSE)

\* A health check whose hook threw, answered 500 with {ok: false}.
C11_Witness ==
    \E t \in C11_HealthChecks :
        /\ tasks[t].pc = "done" /\ Has(tasks[t], "onHealthCheck:throw")
        /\ tasks[t].res.statusCode = 500

C11_WitnessTrue ==
    \E t \in C11_HealthChecks : tasks[t].pc = "done" /\ tasks[t].res.statusCode = 200

----------------------------------------------------------------------------
(* C12: the canonical request of a V1 body *)

\* A value a default stands in for: absent, null or the empty string.
C12_Absent(v) == v \in {Undefined, Null, JString("")}

\* The POSTs whose body is a V1 body with id, args and name: no version, no
\* requestId, and a device that is absent or an object.
C12_V1 ==
    {t \in Dispatched :
        LET f == JsonParse(tasks[t].body).fields
        IN  /\ JsonParse(tasks[t].body).json = "object"
            /\ f["version"] = Undefined /\ f["requestId"] = Undefined
            /\ f["id"].type = "string" /\ f["name"].type = "string" /\ f["args"] # Undefined
            /\ f["device"].type \in {"undefined", "object"}}

\* The canonical request the claim describes, made of the fields of the body.
C12_Canonical(t) ==
    LET f == JsonParse(tasks[t].body).fields
        request == tasks[t].ctx.request
    IN  /\ tasks[t].ctx.defined
        /\ request.version = 1
        /\ request.id = f["id"]
        /\ request.name = f["name"].str
        /\ request.args = f["args"]
        /\ request.deviceInfo.id = (IF C12_Absent(f["device.id"]) THEN f["id"] ELSE f["device.id"])
        /\ request.deviceInfo.type =
                (IF ~C12_Absent(f["device.type"]) THEN f["device.type"]
                 ELSE IF ~C12_Absent(f["device.platform"]) THEN f["device.platform"]
                 ELSE JString(""))
        /\ request.extra = NoExtra

\* C12 as stated: every such body, the one without a device object too, is
\* normalized to the canonical request.
C12_NormalizesV1 == \A t \in C12_V1 : C12_Canonical(t)

\* C12, amended: the body is normalized to that canonical request when it
\* has a device object (an empty one too), a default standing in for an
\* absent or empty value; without a device object the request fails with
\* status 500 and a body holding only a Fatal error, and no context is formed.
C12_NormalizesV1WithDevice ==
    \A t \in C12_V1 :
        IF JsonParse(tasks[t].body).fields["device"].type = "object"
        THEN C12_Canonical(t)
        ELSE /\ ~tasks[t].ctx.defined
             /\ tasks[t].res.statusCode = 500
             /\ Len(tasks[t].res.written) = 1
             /\ Doc(tasks[t]).keys = {"error"} /\ Doc(tasks[t]).error.type = "Fatal"

\* A body whose device has an empty id, an empty type and a platform,
\* normalized: the request id is the device id, the platform the type.
C12_Witness ==
    \E t \in C12_V1 :
        /\ JsonParse(tasks[t].body).fields["device.id"] = JString("")
        /\ tasks[t].ctx.defined
        /\ tasks[t].ctx.request.deviceInfo.id = JString("r1")
        /\ tasks[t].ctx.request.deviceInfo.type = JString("android")

\* A body without a device object, let through by the decoder and failed by
\* the parser.
C12_WitnessNoDevice ==
    \E t \in C12_V1 :
        /\ JsonParse(tasks[t].body).fields["device"] = Undefined
        /\ tasks[t].pc = "done"
        /\ Doc(tasks[t]).error.message = TypeErrorText

----------------------------------------------------------------------------
(* C13: the canonical request of a V3 body *)

\* The POSTs whose body is a V3 body with name and args.
C13_V3 ==
    {t \in Dispatched :
        LET f == JsonParse(tasks[t].body).fields
        IN  /\ JsonParse(tasks[t].body).json = "object"
            /\ f["version"] = JNumber(3)
            /\ f["name"].type = "string" /\ f["args"] # Undefined}

\* What the canonical request has of the body, but for the platform: the
\* value supplied, or the default when the field is absent (or, with
\* `empty`, when it is the empty string).
C13_Carried(supplied, default, empty) ==
    IF supplied \in {Undefined, Null} \/ (empty /\ supplied = JString(""))
    THEN default ELSE supplied

C13_Canonical(t, empty) ==
    LET f == JsonParse(tasks[t].body).fields
        request == tasks[t].ctx.request
    IN  /\ tasks[t].ctx.defined
        /\ request.version = 3
        /\ request.name = f["name"].str
        /\ request.args = f["args"]
        /\ request.id = C13_Carried(f["requestId"], JString("random-id"), empty)
        /\ request.deviceInfo.id = C13_Carried(f["deviceInfo.id"], JString("random-device"), empty)
        /\ request.deviceInfo.type = C13_Carried(f["deviceInfo.type"], JString("api"), empty)
        /\ request.deviceInfo.language = C13_Carried(f["deviceInfo.language"], Null, empty)
        /\ request.deviceInfo.timezone = C13_Carried(f["deviceInfo.timezone"], Null, empty)
        /\ request.deviceInfo.version = C13_Carried(f["deviceInfo.version"], Null, empty)
        /\ IF f["extra"] \in {Undefined, Null}
           THEN request.extra = NoExtra
           ELSE request.extra.kind = "copy" /\ request.extra.of = f["extra"]

\* C13 as stated: generated ids, type "api", language, platform, timezone
\* and version null and an empty extra for a body with name and args only;
\* what is supplied is carried unchanged.
C13_NormalizesV3 ==
    \A t \in C13_V3 :
        /\ C13_Canonical(t, FALSE)
        /\ JsonParse(tasks[t].body).fields["deviceInfo.browserUserAgent"] = Undefined =>
                tasks[t].ctx.request.deviceInfo.platform = Null

\* C13, amended: as stated, but the platform is never null: it is the object
\* {browserUserAgent: null}, or {browserUserAgent: ua} when deviceInfo has a
\* browserUserAgent; and a requestId or deviceInfo field supplied as the
\* empty string gets the default, as an absent one does.
C13_NormalizesV3Platform ==
    \A t \in C13_V3 :
        LET ua == JsonParse(tasks[t].body).fields["deviceInfo.browserUserAgent"]
        IN  /\ C13_Canonical(t, TRUE)
            /\ tasks[t].ctx.request.deviceInfo.platform =
                    JObject("{browserUserAgent:"
                            \o (IF C12_Absent(ua) THEN "null" ELSE ua.str) \o "}")

\* A body with name and args only, and a body with everything, normalized.
C13_Witness ==
    \E t \in C13_V3 :
        /\ JsonParse(tasks[t].body).fields["requestId"] = Undefined
        /\ JsonParse(tasks[t].body).fields["deviceInfo"] = Undefined
        /\ tasks[t].ctx.request.id = JString("random-id")
        /\ tasks[t].ctx.request.deviceInfo.type = JString("api")
        /\ tasks[t].ctx.request.deviceInfo.platform = JObject("{browserUserAgent:null}")

C13_WitnessSupplied ==
    \E t \in C13_V3 :
        /\ tasks[t].ctx.request.extra.kind = "copy"
        /\ tasks[t].ctx.request.deviceInfo.platform = JObject("{browserUserAgent:ua}")
        /\ tasks[t].ctx.request.deviceInfo.language = JString("en")

C13_WitnessEmpty ==
    \E t \in C13_V3 :
        /\ JsonParse(tasks[t].body).fields["requestId"] = JString("")
        /\ tasks[t].ctx.request.id = JString("random-id")

----------------------------------------------------------------------------
(* C14: an exception of the call becomes an error reply *)

\* The requests in which onRequestStart, decode, the function or encode threw.
C14_Threw ==
    {t \in DOMAIN tasks :
        \/ Has(tasks[t], "onRequestStart:throw") \/ Has(tasks[t], "decode:throw")
        \/ Has(tasks[t], "function:throw") \/ Has(tasks[t], "encode:throw")}

\* C14: the exception is made an error reply of the exception's kind, or
\* Fatal when it has none, with the exception's message or string form; the
\* reply is handed to onRequestEnd and, when onRequestEnd returns, a reply is
\* written with context: that error reply when onRequestEnd returned nothing,
\* in which case a V1 or V3 body carries it.
C14_ErrorReply ==
    \A t \in C14_Threw :
        LET e == tasks[t].caught
        IN  /\ Count(tasks[t], {"onRequestEnd"}) = 1
            /\ tasks[t].reply.error =
                    Error(IF e.type # "" THEN e.type ELSE "Fatal",
                          IF e.message # "" THEN e.message ELSE e.text)
            /\ Has(tasks[t], "onRequestEnd:null") \/ Has(tasks[t], "onRequestEnd:reply") =>
                    Has(tasks[t], "writeReply(ctx)")
            /\ Has(tasks[t], "onRequestEnd:null") =>
                    /\ tasks[t].final = tasks[t].reply
                    /\ tasks[t].ctx.request.version \in {1, 3} =>
                            Doc(tasks[t]).error = tasks[t].reply.error

----------------------------------------------------------------------------
(* C15: no exception of the dispatch escapes *)

\* The POSTs that no auxiliary handler took, from the resolution of the
\* client's address on.
C15_Posts == {t \in DOMAIN tasks : Has(tasks[t], "getClientIp")}

\* The steps that threw.
C15_Throws ==
    {"onRequestStart:throw", "decode:throw", "function:throw", "encode:throw",
     "onRequestEnd:throw"}

\* C15: no exception of the dispatch is left uncaught, and a request in
\* which a step threw (the parsing, a hook, decode, the function, encode) is
\* answered once its processing is over: a reply is written and the response
\* is ended.
C15_Caught ==
    \A t \in C15_Posts :
        /\ tasks[t].pc # "unhandledRejection"
        /\ tasks[t].pc = "done" =>
                /\ Count(tasks[t], {"writeReply(ctx)", "writeReply(null)"}) = 1
                /\ tasks[t].res.ended = 1
        /\ Count(tasks[t], C15_Throws) > 0 /\ ~Has(tasks[t], "catch") =>
                tasks[t].pc = "done"
        /\ Has(tasks[t], "catch") =>
                tasks[t].pc \in {"onRequestEnd", "done"}

----------------------------------------------------------------------------
(* C16: onRequestStart and the call *)

\* The place of the first call of that name among the calls of the request.
C16_Pos(task, name) == CHOOSE i \in DOMAIN task.calls : task.calls[i] = name

\* The first is called before the second, when both are called.
C16_Before(task, first, second) ==
    Has(task, first) /\ Has(task, second) => C16_Pos(task, first) < C16_Pos(task, second)

\* The requests whose try block is over: the catch was entered or
\* onRequestEnd was called.
C16_Over == {t \in DOMAIN tasks : Has(tasks[t], "catch") \/ Has(tasks[t], "onRequestEnd")}

\* C16 as stated: with a reply from onRequestStart nothing is decoded, called
\* or encoded; with none, decode, the function and encode run exactly once
\* each, in that order, after onRequestStart and before onRequestEnd.
C16_ExactlyOnceEach ==
    \A t \in C16_Over :
        /\ Has(tasks[t], "onRequestStart:reply") =>
                Count(tasks[t], {"decode", "function", "encode"}) = 0
        /\ Has(tasks[t], "onRequestStart:null") =>
                /\ Count(tasks[t], {"decode"}) = 1
                /\ Count(tasks[t], {"function"}) = 1
                /\ Count(tasks[t], {"encode"}) = 1
                /\ C16_Before(tasks[t], "onRequestStart", "decode")
                /\ C16_Before(tasks[t], "decode", "function")
                /\ C16_Before(tasks[t], "function", "encode")
                /\ C16_Before(tasks[t], "encode", "onRequestEnd")

\* C16, amended: with a reply from onRequestStart nothing is decoded, called
\* or encoded and that reply is handed to onRequestEnd; with none, decode
\* runs exactly once, the function exactly once when decode did not throw
\* and not at all when it did, encode exactly once when the function
\* returned and not at all otherwise; what runs runs in that order, after
\* onRequestStart and before onRequestEnd.
C16_Order ==
    \A t \in DOMAIN tasks :
        /\ Has(tasks[t], "onRequestStart:reply") =>
                /\ Count(tasks[t], {"decode", "function", "encode"}) = 0
                /\ Count(tasks[t], {"onRequestEnd"}) = 1
                /\ ~tasks[t].reply.nil
        /\ Has(tasks[t], "onRequestStart:null") =>
                /\ Count(tasks[t], {"decode"}) = 1
                /\ Count(tasks[t], {"function"}) = (IF Has(tasks[t], "decode:throw") THEN 0 ELSE 1)
                /\ Count(tasks[t], {"encode"}) = (IF Has(tasks[t], "function:return") THEN 1 ELSE 0)
        /\ ~Has(tasks[t], "onRequestStart:null") =>
                Count(tasks[t], {"decode", "function", "encode"}) = 0
        /\ C16_Before(tasks[t], "onRequestStart", "decode")
        /\ C16_Before(tasks[t], "decode", "function")
        /\ C16_Before(tasks[t], "function", "encode")
        /\ \A step \in {"onRequestStart", "decode", "function", "encode"} :
                C16_Before(tasks[t], step, "onRequestEnd")

\* A request answered after all three ran, and one whose start hook replied.
C16_Witness ==
    \E t \in Answered :
        /\ Has(tasks[t], "onRequestStart:null") /\ Has(tasks[t], "encode")
        /\ ~Has(tasks[t], "encode:throw")

C16_WitnessReply == \E t \in Answered : Has(tasks[t], "onRequestStart:reply")

C16_WitnessDecodeThrew ==
    \E t \in Answered : Has(tasks[t], "decode:throw") /\ Has(tasks[t], "onRequestEnd")

----------------------------------------------------------------------------
(* C17: onRequestEnd may replace the reply *)

\* The requests whose onRequestEnd returned and whose reply was written.
C17_Ended ==
    {t \in WithContext : Has(tasks[t], "onRequestEnd:null") \/ Has(tasks[t], "onRequestEnd:reply")}

\* C17: the reply handed to writeReply is what onRequestEnd returned when
\* that is a reply, and the reply handed to onRequestEnd otherwise; the
\* status and the body of a V1 or V3 response are those of that final reply:
\* 200 when it has no error (also when it replaces an error reply), 500 or
\* 400 when it has one (also when it replaces a success).
C17_FinalReply ==
    \A t \in C17_Ended :
        LET own == tasks[t].reply
            returned == tasks[t].returned
            final == tasks[t].final
        IN  /\ Has(tasks[t], "onRequestEnd:reply") => ~returned.nil /\ final = returned
            /\ Has(tasks[t], "onRequestEnd:null") => returned.nil /\ final = own
            /\ tasks[t].ctx.request.version \in {1, 3} =>
                /\ Len(tasks[t].res.written) = 1
                /\ Doc(tasks[t]).error = final.error
                /\ Truthy(final.result) => Doc(tasks[t]).result = final.result
                /\ ~final.error.defined => tasks[t].res.statusCode = 200
                /\ final.error.defined =>
                        tasks[t].res.statusCode = (IF final.error.type = "Fatal" THEN 500 ELSE 400)

\* onRequestEnd replaced an error reply by a success reply: status 200.
C17_Witness ==
    \E t \in C17_Ended :
        /\ tasks[t].ctx.request.version = 3
        /\ tasks[t].reply.error.defined
        /\ ~tasks[t].returned.nil /\ ~tasks[t].returned.error.defined
        /\ tasks[t].res.statusCode = 200
        /\ Doc(tasks[t]).result = JString("rewritten")

\* onRequestEnd replaced a success by an error that is no Fatal error: status 400.
C17_WitnessError ==
    \E t \in C17_Ended :
        /\ tasks[t].ctx.request.version = 1
        /\ ~tasks[t].reply.error.defined
        /\ tasks[t].returned.error.defined
        /\ tasks[t].res.statusCode = 400

----------------------------------------------------------------------------
(* C18: an auxiliary handler takes the request over *)

\* The path of the request without its query and without the ignored prefix.
C18_Path(t) ==
    LET path == Pathname(tasks[t].req.url)
    IN  IF StartsWith(path, ignoredUrlPrefix)
        THEN SubSeq(path, Len(ignoredUrlPrefix) + 1, Len(path))
        ELSE path

\* The requests with another method than OPTIONS whose body has ended.
C18_Ended ==
    {t \in DOMAIN tasks :
        tasks[t].pc \notin {"idle", "reading"} /\ tasks[t].req.method # "OPTIONS"}

\* Those whose method and path resolve to a registered handler.
C18_Resolved ==
    {t \in C18_Ended :
        \E i \in DOMAIN handlers :
            /\ handlers[i].method = tasks[t].req.method
            /\ Matches(C18_Path(t), handlers[i].matcher)}

\* The handler was called once, with the whole body, and nothing else was.
C18_HandlerCalled(t) ==
    /\ Count(tasks[t], {"handler"}) = 1
    /\ tasks[t].handlerBody = tasks[t].body
    /\ tasks[t].body.empty \/ tasks[t].body.missing = 0
    /\ Count(tasks[t], (DispatchCalls \cup {"onHealthCheck"}) \ {"writeReply(null)"}) = 0

\* C18 as stated: the handler is called exactly once with the buffered body
\* and no step of the dispatch runs, nor is a reply written by writeReply.
C18_HandlerOnly ==
    \A t \in C18_Resolved :
        C18_HandlerCalled(t) /\ Count(tasks[t], {"writeReply(null)"}) = 0

\* C18, amended: the handler is called exactly once with the buffered body,
\* and for no other request; no step of the dispatch runs; writeReply writes
\* nothing unless the handler throws: its exception is answered with a
\* context-less Fatal 500, and after a handler that throws undefined or null
\* nothing is written at all.
C18_HandlerTakesOver ==
    \A t \in C18_Ended :
        IF t \in C18_Resolved
        THEN /\ C18_HandlerCalled(t)
             /\ ~Has(tasks[t], "handler:throw") =>
                    tasks[t].pc = "done" /\ Count(tasks[t], {"writeReply(null)"}) = 0
             /\ Has(tasks[t], "handler:throw") =>
                    \/ /\ tasks[t].pc = "done"
                       /\ Count(tasks[t], {"writeReply(null)"}) = 1
                       /\ tasks[t].res.statusCode = 500
                       /\ Doc(tasks[t]).keys = {"error"} /\ Doc(tasks[t]).error.type = "Fatal"
                    \/ /\ tasks[t].pc = "unhandledRejection"
                       /\ Count(tasks[t], {"writeReply(null)"}) = 0
                       /\ tasks[t].res.written = <<>> /\ tasks[t].res.ended = 0
        ELSE Count(tasks[t], {"handler"}) = 0

\* A POST under the ignored prefix, taken by the handler registered for POST.
C18_Witness ==
    \E t \in C18_Resolved :
        /\ tasks[t].req.method = "POST" /\ ignoredUrlPrefix = "/api"
        /\ tasks[t].body.doc = ScenarioBody
        /\ tasks[t].pc = "done" /\ tasks[t].calls = <<"handler">>

C18_WitnessHead ==
    \E t \in C18_Resolved : tasks[t].req.method = "HEAD" /\ tasks[t].pc = "done"

C18_WitnessThrow ==
    \E t \in C18_Resolved : Has(tasks[t], "handler:throw") /\ tasks[t].res.statusCode = 500

----------------------------------------------------------------------------
(* C19: one reply, one end, one access-log line *)

\* The POSTs that no auxiliary handler took and in which nothing is awaited
\* any more: every hook and function called has returned or thrown.
C19_Settled ==
    {t \in C15_Posts : tasks[t].pc \notin {"onRequestStart", "function", "onRequestEnd"}}

\* C19: the reply of such a POST is written by writeReply exactly once and
\* the response ended exactly once; one access-log line is written when the
\* reply is written with context, none when it is written without.
C19_WrittenOnce ==
    \A t \in C19_Settled :
        /\ Count(tasks[t], {"writeReply(ctx)", "writeReply(null)"}) = 1
        /\ tasks[t].res.ended = 1
        /\ Has(tasks[t], "writeReply(ctx)") => Len(tasks[t].log) = 1
        /\ Has(tasks[t], "writeReply(null)") => tasks[t].log = <<>>

----------------------------------------------------------------------------
(* C20: onRequestEnd follows onRequestStart *)

\* The requests in which nothing is awaited any more.
C20_Settled ==
    {t \in DOMAIN tasks :
        tasks[t].pc \notin {"idle", "reading", "onHealthCheck", "onRequestStart", "function",
                            "onRequestEnd"}}

\* C20: onRequestEnd is called at most once, never before onRequestStart,
\* and, once nothing is awaited any more, exactly once when onRequestStart
\* was called (also when onRequestStart or the function threw); neither hook
\* is called for a POST without a client address, with a body that fails to
\* parse or for an unknown function.
C20_EndIffStart ==
    /\ \A t \in DOMAIN tasks :
            /\ Count(tasks[t], {"onRequestStart"}) <= 1
            /\ Count(tasks[t], {"onRequestEnd"}) <= 1
            /\ Has(tasks[t], "onRequestEnd") =>
                    /\ Has(tasks[t], "onRequestStart")
                    /\ C16_Before(tasks[t], "onRequestStart", "onRequestEnd")
            /\ \/ Has(tasks[t], "getClientIp") /\ tasks[t].req.ip = ""
               \/ Has(tasks[t], "parseRequest") /\ ~tasks[t].ctx.defined
               \/ tasks[t].ctx.defined /\ FunctionMissing(tasks[t].ctx.request.name)
               => Count(tasks[t], {"onRequestStart", "onRequestEnd"}) = 0
    /\ \A t \in C20_Settled :
            Count(tasks[t], {"onRequestEnd"}) = Count(tasks[t], {"onRequestStart"})

----------------------------------------------------------------------------
(* C8: route resolution *)

\* The entries registered when findBestHandler was last called that have the
\* call's method and a matcher that matches its path: a literal equal to the
\* path, or a pattern with a match at position 0.
C8_Matching ==
    {i \in 1..found.entries :
        /\ handlers[i].method = found.method
        /\ IF handlers[i].matcher.regexp
           THEN StartsWith(found.path, handlers[i].matcher.source)
           ELSE handlers[i].matcher.source = found.path}

\* The length of the substring a matching pattern matches at position 0.
C8_MatchLen(i) ==
    IF handlers[i].matcher.rest THEN Len(found.path) ELSE Len(handlers[i].matcher.source)

\* Entry i ranks strictly above entry j.
C8_Beats(i, j) ==
    \/ ~handlers[i].matcher.regexp /\ handlers[j].matcher.regexp
    \/ /\ handlers[i].matcher.regexp /\ handlers[j].matcher.regexp
       /\ C8_MatchLen(i) > C8_MatchLen(j)

\* C8: findBestHandler returns null iff no entry has the method and a matcher
\* that matches; otherwise it returns a matching entry that no matching entry
\* beats (a literal beats a pattern, a longer match beats a shorter one) and
\* that was registered before every other matching entry of its rank.
C8_Resolve ==
    found.called =>
        IF C8_Matching = {}
        THEN found.result = NoHandler
        ELSE \E i \in C8_Matching :
                /\ found.result = handlers[i]
                /\ \A j \in C8_Matching : ~C8_Beats(j, i) /\ (~C8_Beats(i, j) => i <= j)

\* A call that returned a pattern entry which beat a shorter matching pattern
\* and tied with a later matching pattern of its own rank.
C8_Witness ==
    /\ found.called
    /\ found.result.matcher.regexp
    /\ \E i, j, k \in C8_Matching :
        /\ found.result = handlers[i]
        /\ C8_Beats(i, j) /\ j < i
        /\ k > i /\ ~C8_Beats(i, k) /\ ~C8_Beats(k, i)

----------------------------------------------------------------------------
(* C10: addHeader joins the values of a name *)

RECURSIVE Join(_)
Join(values) ==
    IF Len(values) = 0 THEN ""
    ELSE IF Len(values) = 1 THEN values[1]
    ELSE values[1] \o ", " \o Join(Tail(values))

RECURSIVE ValuesAdded(_, _)
ValuesAdded(calls, h) ==
    IF calls = <<>> THEN <<>>
    ELSE (IF Trim(ToLowerCase(Head(calls).header)) = h THEN <<Head(calls).value>> ELSE <<>>)
         \o ValuesAdded(Tail(calls), h)

\* C10: the stored value of every header name is the values added under that
\* name (lower-cased, trimmed), in call order, joined with ", ".
C10_Joined ==
    \A h \in DOMAIN headers : headers[h] = Join(ValuesAdded(addHeaderCalls, h))

----------------------------------------------------------------------------
(* C21: concurrent requests *)

\* The V1 requests answered through their context.
C21_V1 == {t \in WithContext : tasks[t].ctx.request.version = 1}

\* The requests whose function returned a value that was encoded.
C21_Returned == {t \in DOMAIN tasks : Has(tasks[t], "encode") /\ ~Has(tasks[t], "encode:throw")}

\* The reply echoes the id and the device id the request itself was sent with.
C21_Echoes(t) ==
    /\ Doc(tasks[t]).id = JString(ConcurrentIds[t])
    /\ Doc(tasks[t]).deviceId = JString(ConcurrentDevices[t])

\* Nothing of the reply is a value of the other request.
C21_NothingForeign(t) ==
    \A o \in DOMAIN tasks \ {t} :
        /\ Doc(tasks[t]).id # JString(ConcurrentIds[o])
        /\ Doc(tasks[t]).deviceId # JString(ConcurrentDevices[o])
        /\ Doc(tasks[t]).result # ConcurrentResults[o]

\* C21: under every interleaving of the callbacks of two requests, a V1
\* reply echoes the id and the device id of its own request and carries the
\* result of its own function.
C21_OwnReply ==
    \A t \in C21_V1 :
        /\ C21_Echoes(t)
        /\ t \in C21_Returned => Doc(tasks[t]).result = tasks[t].encodedRet

\* What holds of the V1 replies: the id and the device id are the request's
\* own, the result is the own function's or null, nothing is the other's.
C21_OwnOrNull ==
    \A t \in C21_V1 :
        /\ C21_Echoes(t)
        /\ C21_NothingForeign(t)
        /\ t \in C21_Returned => Doc(tasks[t]).result \in {tasks[t].encodedRet, Null}
        /\ Truthy(tasks[t].encodedRet) /\ t \in C21_Returned
                => Doc(tasks[t]).result = tasks[t].encodedRet

\* Two V1 requests in flight at once, both answered, each with the result
\* of its own function.
C21_BothAnswered ==
    /\ C21_V1 = ConcurrentTasks
    /\ \A t \in ConcurrentTasks : Doc(tasks[t]).result = ConcurrentResults[t]

\* Processing a request leaves the handler registry and the header map alone.
C21_RegistriesKept == [][handlers' = handlers /\ headers' = headers]_vars

\* A request whose function never resolves has no reply.
C21_PendingUnanswered ==
    \A t \in DOMAIN tasks :
        tasks[t].pc = "pending" => tasks[t].res.ended = 0 /\ tasks[t].res.written = <<>>

\* Once its function never resolves a request stays as it is.
C21_PendingForever ==
    [][\A t \in DOMAIN tasks : tasks[t].pc = "pending" => tasks'[t] = tasks[t]]_vars

\* A step of request t.
C21_Step(t) ==
    Arrives(t) \/ Receives(t) \/ End(t) \/ Starts(t) \/ Runs(t) \/ FunctionNeverResolves(t)
    \/ Ends(t)

\* Whatever the other request does or waits for, a request that is neither
\* answered nor waiting on a function that never resolves can take its next step.
C21_NeverBlocked ==
    \A t \in DOMAIN tasks : tasks[t].pc \notin {"done", "pending"} => ENABLED C21_Step(t)

\* One request waits for ever on its function and the other one, which
\* arrived later, is answered.
C21_AnsweredBesidePending ==
    \E t \in ConcurrentTasks, o \in ConcurrentTasks :
        /\ tasks[t].pc = "pending"
        /\ o \in C21_V1
        /\ Doc(tasks[o]).result = ConcurrentResults[o]

====
